---- MODULE Spec2Model ----
(***************************************************************************)
(* Room server of the multiplayer hex template: the authoritative room     *)
(* state (participants, hex cells, count, status), the join / leave        *)
(* lifecycle and the intent handlers (move, status, chat, hexSelect).      *)
(*                                                                         *)
(* Sources: src/src/rooms/GameRoom.ts (MyRoom, MyState, Player) and the    *)
(* hexSelect handler / HexCell schema listed in src/unnamed/part_002.      *)
(*                                                                         *)
(* The client's connection hook (src/src/hooks/useColyseus.ts) is the      *)
(* record ctl: connect with its guards, backoff and circuit breaker, the   *)
(* reconnect / manual-reconnect timers, disconnect and the mount effect.   *)
(***************************************************************************)
EXTENDS Integers, Sequences, FiniteSets, TLC

(* ------------------------------ bounds --------------------------------- *)

\* Number of clients that may ever join the room in specification Spec.
MaxJoins == 2

\* Cells of the grid are (q, 0) for q in 0..GridExtent.
GridExtent == 0

\* Date.now() returns a value in 0..MaxClock.
MaxClock == 1

\* Number of clients that may ever join / leave in specification SpecLobby.
MaxLobbyJoins == 9

MaxLobbyLeaves == 4

(* --------------------------- program constants -------------------------- *)

\* GameRoom.ts onJoin: the colour palette.
playerColors ==
    << "#3b82f6", "#ef4444", "#10b981", "#f59e0b",
       "#8b5cf6", "#f97316", "#06b6d4", "#84cc16" >>

\* Session identifiers handed out by the framework, one fresh identifier per
\* join (client.sessionId); the i-th client to join holds SessionIds[i].
SessionIds ==
    << "Aq3kZ81xp", "Br7mY20cw", "Cs9nX35dv", "Dt2pW47eu",
       "Eu4qV58ft", "Fv6rU69gs", "Gw8sT70hr", "Hx1tS81iq",
       "Iy3uR92jp", "Jz5vQ03ko", "Ka7wP14ln", "Lb9xO25mm" >>

\* this.roomId
RoomId == "my_room"

Times == 0..MaxClock

\* Join requests: the optional display name ("" = not supplied) and the value
\* Date.now() returns while the join is handled.
JoinRequests == {[name |-> "", now |-> 0], [name |-> "Ann", now |-> MaxClock]}

\* Payloads of move intents.
MovePayloads == {[x |-> 1, y |-> 2]}

\* Payloads of status intents (any string is accepted).
StatusPayloads == {"idle"}

\* Payloads of chat intents.
ChatPayloads == {"hi"}

\* Coordinates sent with hexSelect intents: every cell of the grid and one
\* coordinate pair outside it.
HexPayloads ==
    {[q |-> q, r |-> 0] : q \in 0..GridExtent} \cup {[q |-> 0, r |-> 1]}

VARIABLES
    players,      \* MyState.players : sessionId -> Player
    hexGrid,      \* MyState.hexGrid : hexKey -> HexCell
    gameStatus,   \* MyState.gameStatus
    playerCount,  \* MyState.playerCount
    events,       \* messages emitted by the handler that ran last, in order
    lastOp,       \* history: the callback / intent that ran last
    joined,       \* history: number of onJoin calls so far
    left,         \* history: number of onLeave calls so far
    ctl           \* the client hook instance: refs, React state, timers

roomVars == <<players, hexGrid, gameStatus, playerCount, events, lastOp, joined, left>>

vars == <<players, hexGrid, gameStatus, playerCount, events, lastOp, joined, left, ctl>>

roomState == <<players, hexGrid, gameStatus, playerCount>>

(* ------------------------------ helpers -------------------------------- *)

\* `${message.q},${message.r}`
HexKey(q, r) == ToString(q) \o "," \o ToString(r)

\* new HexCell(): selectedBy = "", color = ""
NewHexCell(q, r) == [q |-> q, r |-> r, selectedBy |-> "", color |-> ""]

\* Cells pre-created at room creation.
InitHexGrid ==
    LET coords == {[q |-> q, r |-> 0] : q \in 0..GridExtent}
        keys == {HexKey(c.q, c.r) : c \in coords}
    IN  [k \in keys |-> LET c == CHOOSE c \in coords : HexKey(c.q, c.r) = k
                        IN  NewHexCell(c.q, c.r)]

\* options.name || `Player_${client.sessionId.substring(0, 6)}`
PlayerName(sid, name) ==
    IF name # "" THEN name ELSE "Player_" \o SubSeq(sid, 1, 6)

\* Faulty variant: the palette index is taken after counting the joiner.
ColorIndexOffByOne(size) == (size + 1) % Len(playerColors)

\* this.state.players.size % playerColors.length
ColorIndex(size) == size % Len(playerColors)

\* new Player() with the fields onJoin assigns.
NewPlayer(sid, name, now) ==
    [name |-> PlayerName(sid, name),
     x |-> 0,
     y |-> 0,
     status |-> "idle",
     joinedAt |-> now,
     color |-> playerColors[ColorIndex(Cardinality(DOMAIN players)) + 1]]

\* MapSchema.set
MapSet(m, k, v) == [j \in DOMAIN m \cup {k} |-> IF j = k THEN v ELSE m[j]]

\* MapSchema.delete
MapDelete(m, k) == [j \in DOMAIN m \ {k} |-> m[j]]

\* onJoin: if (playerCount >= 2) "active" else "waiting"
StatusAfterJoin(count) == IF count >= 2 THEN "active" ELSE "waiting"

\* Faulty variant: every leave resets the status to waiting.
StatusAfterLeaveAlwaysWaiting(count, old) == "waiting"

\* onLeave: if (playerCount < 2) "waiting", else untouched
StatusAfterLeave(count, old) == IF count < 2 THEN "waiting" ELSE old

\* this.broadcast(type, ...): one message to every client of the room.
StateUpdate(ps, count, status) ==
    [type |-> "stateUpdate", to |-> DOMAIN ps,
     playerCount |-> count, gameStatus |-> status,
     playersCount |-> Cardinality(DOMAIN ps)]

PlayerUpdate(ps) ==
    [type |-> "playerUpdate", to |-> DOMAIN ps, players |-> ps]

\* Faulty variant: the welcome is sent to every client of the room.
WelcomeToAll(sid, player) ==
    [type |-> "welcome", to |-> DOMAIN players \cup {sid},
     sessionId |-> sid, playerName |-> player.name, roomId |-> RoomId]

Welcome(sid, player) ==
    [type |-> "welcome", to |-> {sid},
     sessionId |-> sid, playerName |-> player.name, roomId |-> RoomId]

\* Faulty variant: the chat broadcast skips its sender.
ChatEventExceptSender(sid, text, now) ==
    [type |-> "chat", to |-> DOMAIN players \ {sid},
     sessionId |-> sid, message |-> text, timestamp |-> now]

ChatEvent(sid, text, now) ==
    [type |-> "chat", to |-> DOMAIN players,
     sessionId |-> sid, message |-> text, timestamp |-> now]

\* Faulty variant: the broadcast names the sender even after a deselect.
HexUpdateAlwaysName(cell, player) ==
    [type |-> "hexUpdate", to |-> DOMAIN players,
     q |-> cell.q, r |-> cell.r,
     selectedBy |-> cell.selectedBy, color |-> cell.color,
     playerName |-> player.name]

HexUpdate(cell, player) ==
    [type |-> "hexUpdate", to |-> DOMAIN players,
     q |-> cell.q, r |-> cell.r,
     selectedBy |-> cell.selectedBy, color |-> cell.color,
     playerName |-> IF cell.selectedBy # "" THEN player.name ELSE ""]

\* Faulty variant: the holder's own intent selects again instead of deselecting.
ToggleCellNoDeselect(cell, sid, player) ==
    [cell EXCEPT !.selectedBy = sid, !.color = player.color]

\* Faulty variant: a cell held by another identity cannot be taken.
ToggleCellOwned(cell, sid, player) ==
    IF cell.selectedBy = sid
    THEN [cell EXCEPT !.selectedBy = "", !.color = ""]
    ELSE IF cell.selectedBy = ""
         THEN [cell EXCEPT !.selectedBy = sid, !.color = player.color]
         ELSE cell

\* Faulty variant: deselecting clears the occupant but not the colour.
ToggleCellKeepColor(cell, sid, player) ==
    IF cell.selectedBy = sid
    THEN [cell EXCEPT !.selectedBy = ""]
    ELSE [cell EXCEPT !.selectedBy = sid, !.color = player.color]

\* hexSelect: deselect when the sender holds the cell, else select / steal.
ToggleCell(cell, sid, player) ==
    IF cell.selectedBy = sid
    THEN [cell EXCEPT !.selectedBy = "", !.color = ""]
    ELSE [cell EXCEPT !.selectedBy = sid, !.color = player.color]

\* Record of a handler run.  For a hexSelect: was = the occupant of the aimed
\* cell before the intent; prevSid, prevWas = sender and "was" of the run just
\* before, when that run was an applied hexSelect on the same cell.
Op(op, sid) ==
    [op |-> op, sid |-> sid, q |-> 0, r |-> 0, x |-> 0, y |-> 0, text |-> "",
     was |-> "", prevSid |-> "", prevWas |-> ""]

\* How a leave is recorded: graceful (consented) or abrupt disconnect.
LeaveKind(consented) == IF consented THEN "consented" ELSE "abrupt"

(* ====================== connection controller ========================== *)
(* The client hook useColyseus (src/src/hooks/useColyseus.ts): refs, React *)
(* state, pending timers and connect() activations of one hook instance.  *)

(* ------------------------------ bounds --------------------------------- *)

\* connect() activations that may pass the guards of connect in one run.
MaxAttempts == 4

\* The clock advances at most MaxQuanta * Quantum milliseconds after start.
MaxQuanta == 4

\* Calls of disconnect, manualReconnect and effect teardowns in one run.
MaxUserActions == 2

\* The clock of specification SpecRetry advances at most MaxRetryQuanta *
\* Quantum milliseconds after start.
MaxRetryQuanta == 14

\* Chat broadcasts made by the room in specification SpecChat.
MaxChats == 3

\* Specification SpecBackoff starts connect with reconnect-attempt counts
\* 0..MaxBackoffN.
MaxBackoffN == 8

(* --------------------------- program constants -------------------------- *)

\* useColyseus.ts connect: minimum spacing of two attempts (ms).
RateLimitMs == 5000

\* connect: consecutive failures at which the circuit breaker refuses.
BreakerThreshold == 3

\* connect: cooldown per counted failure (ms) and its cap.
BreakerUnitMs == 10000

BreakerCapMs == 60000

\* connect: backoff base (ms), cap (ms) and growth factor 1.5 = 3 / 2.
BackoffBaseMs == 2000

BackoffCapMs == 15000

BackoffNum == 3

BackoffDen == 2

\* Hook options: defaults of reconnectInterval and maxReconnectAttempts.
reconnectInterval == 10000

maxReconnectAttempts == 3

\* manualReconnect: delay before the connect call (ms).
ManualDelayMs == 500

\* onLeave listener: the close code of a clean close.
CleanCloseCode == 1000

\* A close code of an unexpected disconnection.
AbnormalCloseCode == 1006

CloseCodes == {CleanCloseCode, AbnormalCloseCode}

\* null of a room handle, a session identity or a timer handle.
Null == 0

\* null of the error state.
NoError == "<null>"

\* Values thrown by joinOrCreate: an Error carrying a browser network error
\* text, an Error with another text, and a value that is not an Error.
JoinErrors ==
    {[isError |-> TRUE, message |-> "net::ERR_NETWORK_CHANGED"],
     [isError |-> FALSE, message |-> ""]}

\* (type, data) pairs passed to sendMessage.
Intents == {[type |-> "chat", data |-> "hi"]}

\* No call of Room.send.
NoSend == [to |-> Null, type |-> "", data |-> ""]

\* (code, message) pairs passed to the onError listener.
RoomErrors == {[code |-> 4212, message |-> "seat expired"]}

\* Granularity of the clock: time moves to the next timer deadline or by
\* Quantum, whichever is sooner.
Quantum == RateLimitMs

\* Date.now() when the hook is constructed; lastConnectionAttemptRef is 0.
StartTime == 2 * RateLimitMs

MaxTime == StartTime + MaxQuanta * Quantum

MaxRetryTime == StartTime + MaxRetryQuanta * Quantum

(* ------------------------------ helpers -------------------------------- *)

Min(a, b) == IF a <= b THEN a ELSE b

RECURSIVE Pow(_, _)
Pow(b, n) == IF n = 0 THEN 1 ELSE b * Pow(b, n - 1)

\* String.prototype.includes
Includes(s, sub) ==
    \E i \in 1..(Len(s) - Len(sub) + 1) : SubSeq(s, i, i + Len(sub) - 1) = sub

\* Faulty variant: the cooldown does not grow with the failure count.
CooldownMsFlat(failures) == Min(BreakerUnitMs, BreakerCapMs)

\* connect: Math.min(failureCount * 10000, 60000)
CooldownMs(failures) == Min(failures * BreakerUnitMs, BreakerCapMs)

\* Faulty variant: the delay doubles with every attempt.
BackoffMsDoubling(attempts) ==
    Min(BackoffBaseMs * Pow(BackoffDen, attempts), BackoffCapMs)

\* connect: Math.min(2000 * Math.pow(1.5, attempts), 15000); the product is
\* a whole number whenever it is below the cap.
BackoffMs(attempts) ==
    Min((BackoffBaseMs * Pow(BackoffNum, attempts)) \div Pow(BackoffDen, attempts),
        BackoffCapMs)

\* connect, catch block: the text shown for a thrown value.
ErrorMessage(err) ==
    IF ~err.isError THEN "Connection failed"
    ELSE IF Includes(err.message, "ERR_INSUFFICIENT_RESOURCES")
         THEN "Server overloaded or sleeping (Render free tier). Try again in a moment."
    ELSE IF Includes(err.message, "ERR_NETWORK")
         THEN "Network error - check your internet connection"
    ELSE IF Includes(err.message, "ERR_CONNECTION_REFUSED")
         THEN "Connection refused - server may be down"
    ELSE err.message

\* onError listener: the text shown for a room error.
RoomErrorMessage(e) ==
    "Room error: " \o e.message \o " (" \o ToString(e.code) \o ")"

\* The hook after construction: refs and React state at their initial values,
\* the mount effect not yet run.  broadcasts is the sequence of chat
\* broadcasts the room has made, inbox the chat messages on their way to the
\* hook's sessions; an entry of messages carries, besides the data, the
\* position of the broadcast in the room's order and the session it came by.
NewHook(auto) ==
    [autoReconnect |-> auto, mounted |-> FALSE, now |-> StartTime,
     room |-> Null, sessionId |-> Null, connectionStatus |-> "disconnected",
     error |-> NoError,
     clientRef |-> FALSE, roomRef |-> Null, reconnectTimeoutRef |-> Null,
     reconnectAttemptsRef |-> 0, isConnectingRef |-> FALSE,
     shouldReconnectRef |-> TRUE, lastConnectionAttemptRef |-> 0,
     connectionFailureCountRef |-> 0,
     attempts |-> {}, cooldowns |-> {}, manualTimers |-> {}, sessions |-> {},
     started |-> 0, joinCalls |-> 0, userActions |-> 0,
     op |-> "new", connectResult |-> "none", released |-> Null,
     disconnected |-> FALSE, closeCode |-> Null, sent |-> NoSend,
     messages |-> <<>>, broadcasts |-> <<>>, inbox |-> {}]

\* Room.leave() on the session with the given identity: the connection is
\* closing, the onLeave listener runs when it has closed.
LeaveRoom(sessions, id) ==
    {IF s.id = id THEN [s EXCEPT !.closing = TRUE] ELSE s : s \in sessions}

\* The start of a handler: the history fields of the previous one are reset.
Fresh(c) ==
    [c EXCEPT !.connectResult = "none", !.released = Null, !.closeCode = Null,
              !.sent = NoSend]

(* ------------------------------- state --------------------------------- *)

\* onCreate
RoomInit ==
    /\ players = <<>>
    /\ hexGrid = InitHexGrid
    /\ gameStatus = "waiting"
    /\ playerCount = 0
    /\ events = <<>>
    /\ lastOp = Op("create", "")
    /\ joined = 0
    /\ left = 0

\* The room server alone: the client hook is constructed and never mounted.
Init ==
    /\ RoomInit
    /\ ctl = NewHook(FALSE)

(* ------------------------------ handlers ------------------------------- *)

OnJoin(sid, name, now) ==
    LET player == NewPlayer(sid, name, now)
        ps == MapSet(players, sid, player)
        count == Cardinality(DOMAIN ps)
        status == StatusAfterJoin(count)
    IN  /\ players' = ps
        /\ playerCount' = count
        /\ gameStatus' = status
        /\ events' = << StateUpdate(ps, count, status), PlayerUpdate(ps), Welcome(sid, player) >>
        /\ lastOp' = Op("join", sid)
        /\ joined' = joined + 1
        /\ UNCHANGED <<hexGrid, left>>

\* Faulty variant: the leave does not recompute playerCount.
OnLeaveStaleCount(sid, consented) ==
    LET ps == MapDelete(players, sid)
        status == StatusAfterLeave(playerCount, gameStatus)
    IN  /\ players' = ps
        /\ playerCount' = playerCount
        /\ gameStatus' = status
        /\ events' = << StateUpdate(ps, playerCount, status), PlayerUpdate(ps) >>
        /\ lastOp' = [Op("leave", sid) EXCEPT !.text = LeaveKind(consented)]
        /\ left' = left + 1
        /\ UNCHANGED <<hexGrid, joined>>

\* Faulty variant: the roster is broadcast before the leaver is deleted.
OnLeaveStaleRoster(sid, consented) ==
    LET ps == MapDelete(players, sid)
        count == Cardinality(DOMAIN ps)
        status == StatusAfterLeave(count, gameStatus)
    IN  /\ players' = ps
        /\ playerCount' = count
        /\ gameStatus' = status
        /\ events' = << StateUpdate(ps, count, status), PlayerUpdate(players) >>
        /\ lastOp' = [Op("leave", sid) EXCEPT !.text = LeaveKind(consented)]
        /\ left' = left + 1
        /\ UNCHANGED <<hexGrid, joined>>

\* Faulty variant: the leave clears the cells held by the leaver.
OnLeaveClearCells(sid, consented) ==
    LET ps == MapDelete(players, sid)
        count == Cardinality(DOMAIN ps)
        status == StatusAfterLeave(count, gameStatus)
    IN  /\ players' = ps
        /\ playerCount' = count
        /\ gameStatus' = status
        /\ hexGrid' = [k \in DOMAIN hexGrid |->
                         IF hexGrid[k].selectedBy = sid
                         THEN [hexGrid[k] EXCEPT !.selectedBy = "", !.color = ""]
                         ELSE hexGrid[k]]
        /\ events' = << StateUpdate(ps, count, status), PlayerUpdate(ps) >>
        /\ lastOp' = [Op("leave", sid) EXCEPT !.text = LeaveKind(consented)]
        /\ left' = left + 1
        /\ UNCHANGED joined

\* onLeave(client, consented): consented is not read.
OnLeave(sid, consented) ==
    LET ps == MapDelete(players, sid)
        count == Cardinality(DOMAIN ps)
        status == StatusAfterLeave(count, gameStatus)
    IN  /\ players' = ps
        /\ playerCount' = count
        /\ gameStatus' = status
        /\ events' = << StateUpdate(ps, count, status), PlayerUpdate(ps) >>
        /\ lastOp' = [Op("leave", sid) EXCEPT !.text = LeaveKind(consented)]
        /\ left' = left + 1
        /\ UNCHANGED <<hexGrid, joined>>

\* Faulty variant: every move intent broadcasts the roster.
OnMoveBroadcast(sid, msg) ==
    /\ players' = IF sid \in DOMAIN players
                  THEN [players EXCEPT ![sid].x = msg.x, ![sid].y = msg.y,
                                       ![sid].status = "moving"]
                  ELSE players
    /\ events' = << PlayerUpdate(players') >>
    /\ lastOp' = [Op("move", sid) EXCEPT !.x = msg.x, !.y = msg.y]
    /\ UNCHANGED <<hexGrid, gameStatus, playerCount, joined, left>>

\* Faulty variant: a move stores the position and leaves the status alone.
OnMoveKeepStatus(sid, msg) ==
    /\ players' = IF sid \in DOMAIN players
                  THEN [players EXCEPT ![sid].x = msg.x, ![sid].y = msg.y]
                  ELSE players
    /\ events' = <<>>
    /\ lastOp' = [Op("move", sid) EXCEPT !.x = msg.x, !.y = msg.y]
    /\ UNCHANGED <<hexGrid, gameStatus, playerCount, joined, left>>

OnMove(sid, msg) ==
    /\ players' = IF sid \in DOMAIN players
                  THEN [players EXCEPT ![sid].x = msg.x, ![sid].y = msg.y,
                                       ![sid].status = "moving"]
                  ELSE players
    /\ events' = <<>>
    /\ lastOp' = [Op("move", sid) EXCEPT !.x = msg.x, !.y = msg.y]
    /\ UNCHANGED <<hexGrid, gameStatus, playerCount, joined, left>>

\* Faulty variant: a status intent overwrites the sender's name.
OnStatusAsName(sid, status) ==
    /\ players' = IF sid \in DOMAIN players
                  THEN [players EXCEPT ![sid].name = status]
                  ELSE players
    /\ events' = <<>>
    /\ lastOp' = [Op("status", sid) EXCEPT !.text = status]
    /\ UNCHANGED <<hexGrid, gameStatus, playerCount, joined, left>>

\* onMessage("status")
OnStatus(sid, status) ==
    /\ players' = IF sid \in DOMAIN players
                  THEN [players EXCEPT ![sid].status = status]
                  ELSE players
    /\ events' = <<>>
    /\ lastOp' = [Op("status", sid) EXCEPT !.text = status]
    /\ UNCHANGED <<hexGrid, gameStatus, playerCount, joined, left>>

OnChat(sid, text, now) ==
    /\ events' = << ChatEvent(sid, text, now) >>
    /\ lastOp' = [Op("chat", sid) EXCEPT !.text = text]
    /\ UNCHANGED <<players, hexGrid, gameStatus, playerCount, joined, left>>

OnHexSelect(sid, msg) ==
    LET hexKey == HexKey(msg.q, msg.r)
        applied == hexKey \in DOMAIN hexGrid /\ sid \in DOMAIN players
        follows == /\ lastOp.op = "hexSelect"
                   /\ HexKey(lastOp.q, lastOp.r) = hexKey
                   /\ lastOp.sid \in DOMAIN players
    IN  /\ IF applied
           THEN LET cell == ToggleCell(hexGrid[hexKey], sid, players[sid])
                IN  /\ hexGrid' = [hexGrid EXCEPT ![hexKey] = cell]
                    /\ events' = << HexUpdate(cell, players[sid]) >>
           ELSE /\ hexGrid' = hexGrid
                /\ events' = <<>>
        /\ lastOp' = [Op("hexSelect", sid) EXCEPT
                         !.q = msg.q, !.r = msg.r,
                         !.was = IF applied THEN hexGrid[hexKey].selectedBy ELSE "",
                         !.prevSid = IF applied /\ follows THEN lastOp.sid ELSE "",
                         !.prevWas = IF applied /\ follows THEN lastOp.was ELSE ""]
        /\ UNCHANGED <<players, gameStatus, playerCount, joined, left>>

(* ------------------------------- steps --------------------------------- *)

\* Identities that may send an intent: every identity the framework has
\* handed out or may hand out, present or not.
Senders == {SessionIds[i] : i \in 1..MaxJoins}

Join ==
    /\ joined < MaxJoins
    /\ \E req \in JoinRequests : OnJoin(SessionIds[joined + 1], req.name, req.now)
    /\ UNCHANGED ctl

Leave ==
    /\ \E sid \in DOMAIN players, consented \in BOOLEAN : OnLeave(sid, consented)
    /\ UNCHANGED ctl

Move ==
    /\ \E sid \in Senders, msg \in MovePayloads : OnMove(sid, msg)
    /\ UNCHANGED ctl

Status ==
    /\ \E sid \in Senders, status \in StatusPayloads : OnStatus(sid, status)
    /\ UNCHANGED ctl

Chat ==
    /\ \E sid \in Senders, text \in ChatPayloads, now \in Times : OnChat(sid, text, now)
    /\ UNCHANGED ctl

HexSelect ==
    /\ \E sid \in Senders, msg \in HexPayloads : OnHexSelect(sid, msg)
    /\ UNCHANGED ctl

Next == Join \/ Leave \/ Move \/ Status \/ Chat \/ HexSelect

Spec == Init /\ [][Next]_vars

\* The lobby alone: joins and leaves of up to MaxLobbyJoins clients.
LobbyJoin ==
    /\ joined < MaxLobbyJoins
    /\ OnJoin(SessionIds[joined + 1], "", 0)
    /\ UNCHANGED ctl

LobbyLeave ==
    /\ left < MaxLobbyLeaves
    /\ \E sid \in DOMAIN players, consented \in BOOLEAN : OnLeave(sid, consented)
    /\ UNCHANGED ctl

LobbyNext == LobbyJoin \/ LobbyLeave

SpecLobby == Init /\ [][LobbyNext]_vars

(* ------------------------------ functions ------------------------------ *)

\* cleanup
cleanup(c) ==
    [c EXCEPT !.shouldReconnectRef = FALSE,
              !.reconnectTimeoutRef = Null,
              !.sessions = LeaveRoom(@, c.roomRef),
              !.roomRef = Null,
              !.clientRef = FALSE,
              !.room = Null,
              !.sessionId = Null,
              !.messages = <<>>,
              !.isConnectingRef = FALSE]

\* connect, from "Clean up any existing connections" to the joinOrCreate
\* call: activation a leaves the existing room, makes a client and waits for
\* the join.  An activation is [id, phase, wake, gen]: its number, where it
\* waits ("backoff" until wake, or "joining"), and how many cleanup calls had
\* been made when it started.
IssueJoin(c, a) ==
    [c EXCEPT !.sessions = LeaveRoom(@, c.roomRef),
              !.clientRef = TRUE,
              !.joinCalls = @ + 1,
              !.attempts = (@ \ {a}) \cup {[a EXCEPT !.phase = "joining", !.wake = Null]}]

\* Faulty variant: connect without the rate-limit check.
connectNoRateLimit(c) ==
    IF c.isConnectingRef THEN [c EXCEPT !.connectResult = "busy"]
    ELSE IF ~c.shouldReconnectRef THEN [c EXCEPT !.connectResult = "disabled"]
    ELSE IF c.connectionFailureCountRef >= BreakerThreshold
         THEN [c EXCEPT !.connectResult = "breaker",
                        !.cooldowns = @ \cup {c.now + CooldownMs(c.connectionFailureCountRef)}]
    ELSE LET c1 == [c EXCEPT !.connectResult = "started",
                             !.lastConnectionAttemptRef = c.now,
                             !.isConnectingRef = TRUE,
                             !.connectionStatus = "connecting",
                             !.error = NoError,
                             !.started = @ + 1]
             a == [id |-> c1.started, phase |-> "backoff",
                   wake |-> c.now + BackoffMs(c.reconnectAttemptsRef),
                   gen |-> c.userActions]
         IN  IF c.reconnectAttemptsRef > 0
             THEN [c1 EXCEPT !.attempts = @ \cup {a}]
             ELSE IssueJoin(c1, a)

\* connect, from its call to its first await or return.
connect(c) ==
    IF c.isConnectingRef THEN [c EXCEPT !.connectResult = "busy"]
    ELSE IF ~c.shouldReconnectRef THEN [c EXCEPT !.connectResult = "disabled"]
    ELSE IF c.now - c.lastConnectionAttemptRef < RateLimitMs
         THEN [c EXCEPT !.connectResult = "rateLimited"]
    ELSE IF c.connectionFailureCountRef >= BreakerThreshold
         THEN [c EXCEPT !.connectResult = "breaker",
                        !.cooldowns = @ \cup {c.now + CooldownMs(c.connectionFailureCountRef)}]
    ELSE LET c1 == [c EXCEPT !.connectResult = "started",
                             !.lastConnectionAttemptRef = c.now,
                             !.isConnectingRef = TRUE,
                             !.connectionStatus = "connecting",
                             !.error = NoError,
                             !.started = @ + 1]
             a == [id |-> c1.started, phase |-> "backoff",
                   wake |-> c.now + BackoffMs(c.reconnectAttemptsRef),
                   gen |-> c.userActions]
         IN  IF c.reconnectAttemptsRef > 0
             THEN [c1 EXCEPT !.attempts = @ \cup {a}]
             ELSE IssueJoin(c1, a)

\* Faulty variant: scheduleReconnect arms a timer although one is pending.
scheduleReconnectNoGuard(c) ==
    IF ~c.shouldReconnectRef THEN c
    ELSE [c EXCEPT !.reconnectAttemptsRef = @ + 1,
                   !.connectionStatus = "reconnecting",
                   !.reconnectTimeoutRef = c.now + reconnectInterval]

\* scheduleReconnect
scheduleReconnect(c) ==
    IF c.reconnectTimeoutRef # Null \/ ~c.shouldReconnectRef THEN c
    ELSE [c EXCEPT !.reconnectAttemptsRef = @ + 1,
                   !.connectionStatus = "reconnecting",
                   !.reconnectTimeoutRef = c.now + reconnectInterval]

\* Faulty variant: the timer callback clears the handle and does not connect.
reconnectTimeoutIdle(c) == [c EXCEPT !.reconnectTimeoutRef = Null]

\* The callback of the timer set by scheduleReconnect.
reconnectTimeout(c) ==
    LET c1 == [c EXCEPT !.reconnectTimeoutRef = Null]
    IN  IF c1.shouldReconnectRef THEN connect(c1) ELSE c1

\* Faulty variant: an adopted session does not reset the failure count.
joinResolvedKeepFailures(c, a) ==
    LET c1 == [c EXCEPT !.attempts = @ \ {a}]
        c2 == IF ~c1.shouldReconnectRef
              THEN [c1 EXCEPT !.released = a.id]
              ELSE [c1 EXCEPT !.roomRef = a.id,
                              !.room = a.id,
                              !.sessionId = a.id,
                              !.connectionStatus = "connected",
                              !.reconnectAttemptsRef = 0,
                              !.sessions = @ \cup {[id |-> a.id, closing |-> FALSE]}]
    IN  [c2 EXCEPT !.isConnectingRef = FALSE]

\* connect, after joinOrCreate resolved for activation a.
joinResolved(c, a) ==
    LET c1 == [c EXCEPT !.attempts = @ \ {a}]
        c2 == IF ~c1.shouldReconnectRef
              THEN [c1 EXCEPT !.released = a.id]
              ELSE [c1 EXCEPT !.roomRef = a.id,
                              !.room = a.id,
                              !.sessionId = a.id,
                              !.connectionStatus = "connected",
                              !.reconnectAttemptsRef = 0,
                              !.connectionFailureCountRef = 0,
                              !.sessions = @ \cup {[id |-> a.id, closing |-> FALSE]}]
    IN  [c2 EXCEPT !.isConnectingRef = FALSE]

\* Faulty variant: a failure schedules a reconnect whether or not
\* auto-reconnect is enabled and whatever the attempt count.
joinRejectedAlwaysRetry(c, a, err) ==
    LET c1 == [c EXCEPT !.attempts = @ \ {a},
                        !.error = ErrorMessage(err),
                        !.connectionStatus = "error",
                        !.connectionFailureCountRef = @ + 1]
        c2 == IF c1.shouldReconnectRef THEN scheduleReconnect(c1) ELSE c1
    IN  [c2 EXCEPT !.isConnectingRef = FALSE]

\* Faulty variant: no finally block, the in-flight guard stays set.
joinRejectedNoFinally(c, a, err) ==
    LET c1 == [c EXCEPT !.attempts = @ \ {a},
                        !.error = ErrorMessage(err),
                        !.connectionStatus = "error",
                        !.connectionFailureCountRef = @ + 1]
    IN  IF /\ c1.autoReconnect
           /\ c1.shouldReconnectRef
           /\ c1.reconnectAttemptsRef < maxReconnectAttempts
        THEN scheduleReconnect(c1)
        ELSE c1

\* connect, catch and finally blocks after joinOrCreate threw err.
joinRejected(c, a, err) ==
    LET c1 == [c EXCEPT !.attempts = @ \ {a},
                        !.error = ErrorMessage(err),
                        !.connectionStatus = "error",
                        !.connectionFailureCountRef = @ + 1]
        c2 == IF /\ c1.autoReconnect
                 /\ c1.shouldReconnectRef
                 /\ c1.reconnectAttemptsRef < maxReconnectAttempts
              THEN scheduleReconnect(c1)
              ELSE c1
    IN  [c2 EXCEPT !.isConnectingRef = FALSE]

\* The onLeave listener of session s, called with a close code.
onLeave(c, s, code) ==
    LET c1 == [c EXCEPT !.sessions = @ \ {s},
                        !.connectionStatus = "disconnected",
                        !.roomRef = Null,
                        !.room = Null]
    IN  IF /\ c1.autoReconnect
           /\ c1.shouldReconnectRef
           /\ code # CleanCloseCode
           /\ c1.reconnectAttemptsRef < maxReconnectAttempts
        THEN scheduleReconnect(c1)
        ELSE c1

\* The onError listener of a session.
onError(c, e) ==
    [c EXCEPT !.error = RoomErrorMessage(e), !.connectionStatus = "error"]

\* Faulty variant: the chat listener puts the newest message first.
chatListenerPrepend(c, m) ==
    [c EXCEPT !.messages = <<[data |-> m.data, seq |-> m.seq, via |-> m.to]>> \o @]

\* The "chat" listener of a session: setMessages(prev => [...prev, data]).
chatListener(c, m) ==
    [c EXCEPT !.messages = Append(@, [data |-> m.data, seq |-> m.seq, via |-> m.to])]

\* Faulty variant: sendMessage does not look at the status.
sendMessageAnyStatus(c, intent) ==
    IF c.roomRef # Null
    THEN [c EXCEPT !.sent = [to |-> c.roomRef, type |-> intent.type, data |-> intent.data]]
    ELSE c

\* sendMessage; sent records the call of roomRef.current.send.
sendMessage(c, intent) ==
    IF c.roomRef # Null /\ c.connectionStatus = "connected"
    THEN [c EXCEPT !.sent = [to |-> c.roomRef, type |-> intent.type, data |-> intent.data]]
    ELSE c

\* disconnect
disconnect(c) ==
    cleanup([c EXCEPT !.shouldReconnectRef = FALSE,
                      !.connectionStatus = "disconnected"])

\* manualReconnect, up to the setTimeout call.
manualReconnect(c) ==
    LET c1 == cleanup([c EXCEPT !.reconnectAttemptsRef = 0,
                                !.connectionFailureCountRef = 0,
                                !.shouldReconnectRef = TRUE])
    IN  [c1 EXCEPT !.manualTimers = @ \cup {c.now + ManualDelayMs}]

\* The callback of the timer set by manualReconnect.
manualTimeout(c) == IF c.shouldReconnectRef THEN connect(c) ELSE c

\* The callback of the timer set by the circuit breaker.
cooldownTimeout(c) == [c EXCEPT !.connectionFailureCountRef = 0]

\* The mount effect.
mountEffect(c) == connect([c EXCEPT !.mounted = TRUE, !.shouldReconnectRef = TRUE])

\* The teardown of the mount effect.
unmountEffect(c) == cleanup([c EXCEPT !.mounted = FALSE])

(* ------------------------------- steps --------------------------------- *)

\* Deadlines of the pending timers: reconnect, cooldown, manual, backoff.
Deadlines(c) ==
    ({c.reconnectTimeoutRef} \cup c.cooldowns \cup c.manualTimers
        \cup {a.wake : a \in c.attempts}) \ {Null}

\* A handler ran: record which, and leave the room server alone.
Ran(op, c) ==
    /\ ctl' = [c EXCEPT !.op = op]
    /\ UNCHANGED roomVars

Mount ==
    /\ ~ctl.mounted
    /\ ctl.started < MaxAttempts
    /\ Ran("mount", [mountEffect(Fresh(ctl)) EXCEPT !.disconnected = FALSE])

UserAction(c) == [c EXCEPT !.userActions = @ + 1]

Unmount ==
    /\ ctl.mounted
    /\ ctl.userActions < MaxUserActions
    /\ Ran("unmount", unmountEffect(UserAction(Fresh(ctl))))

Disconnect ==
    /\ ctl.mounted
    /\ ctl.userActions < MaxUserActions
    /\ Ran("disconnect",
           [disconnect(UserAction(Fresh(ctl))) EXCEPT !.disconnected = TRUE])

ManualReconnect ==
    /\ ctl.mounted
    /\ ctl.userActions < MaxUserActions
    /\ Ran("manualReconnect",
           [manualReconnect(UserAction(Fresh(ctl))) EXCEPT !.disconnected = FALSE])

ReconnectTimer ==
    /\ ctl.reconnectTimeoutRef # Null
    /\ ctl.reconnectTimeoutRef <= ctl.now
    /\ ctl.started < MaxAttempts
    /\ Ran("reconnectTimer", reconnectTimeout(Fresh(ctl)))

ManualTimer ==
    \E d \in ctl.manualTimers :
        /\ d <= ctl.now
        /\ ctl.started < MaxAttempts
        /\ Ran("manualTimer",
               manualTimeout([Fresh(ctl) EXCEPT !.manualTimers = @ \ {d}]))

CooldownTimer ==
    \E d \in ctl.cooldowns :
        /\ d <= ctl.now
        /\ Ran("cooldownTimer",
               cooldownTimeout([Fresh(ctl) EXCEPT !.cooldowns = @ \ {d}]))

BackoffElapsed ==
    \E a \in ctl.attempts :
        /\ a.phase = "backoff"
        /\ a.wake <= ctl.now
        /\ Ran("backoffElapsed", IssueJoin(Fresh(ctl), a))

JoinResolved ==
    \E a \in ctl.attempts :
        /\ a.phase = "joining"
        /\ Ran("joinResolved", joinResolved(Fresh(ctl), a))

JoinRejected ==
    \E a \in ctl.attempts, err \in JoinErrors :
        /\ a.phase = "joining"
        /\ Ran("joinRejected", joinRejected(Fresh(ctl), a, err))

SendMessage ==
    \E intent \in Intents :
        /\ ctl.mounted
        /\ Ran("sendMessage", sendMessage(Fresh(ctl), intent))

\* The two participants whose chat intents the room handles in SpecChat.
ChatSenders == {SessionIds[1], SessionIds[2]}

\* The connection of session s has closed: nothing more arrives by it.
RoomLeft ==
    \E s \in ctl.sessions, code \in CloseCodes :
        Ran("onLeave", [onLeave(Fresh(ctl), s, code) EXCEPT
                            !.closeCode = code,
                            !.inbox = {m \in @ : m.to # s.id}])

\* The room handles a chat intent: the broadcast goes to every connection
\* the room has, the hook's sessions among them (a session the hook is
\* leaving is a connection of the room until it has closed).  Date.now()
\* grows with every broadcast.
ChatBroadcast ==
    \E sid \in ChatSenders, text \in ChatPayloads :
        /\ Len(ctl.broadcasts) < MaxChats
        /\ LET seq == Len(ctl.broadcasts) + 1
               data == [sessionId |-> sid, message |-> text, timestamp |-> seq]
           IN  /\ OnChat(sid, text, seq)
               /\ ctl' = [Fresh(ctl) EXCEPT
                              !.op = "chatBroadcast",
                              !.broadcasts = Append(@, data),
                              !.inbox = @ \cup {[to |-> s.id, seq |-> seq,
                                                  data |-> data] : s \in ctl.sessions}]

\* A chat message arrives by a session, in the order of the connection.
ChatDelivered ==
    \E m \in ctl.inbox :
        /\ \A u \in ctl.inbox : u.to = m.to => m.seq <= u.seq
        /\ Ran("chat", chatListener([Fresh(ctl) EXCEPT !.inbox = @ \ {m}], m))

RoomErrored ==
    \E s \in ctl.sessions, e \in RoomErrors :
        /\ ~s.closing
        /\ Ran("onError", onError(Fresh(ctl), e))

\* Time passes: to the next deadline or by Quantum, whichever is sooner; a
\* timer that is due runs before time passes.
AdvanceWithin(limit) ==
    LET due == Deadlines(ctl)
        next == {ctl.now + Quantum} \cup due
        to == CHOOSE t \in next : \A u \in next : t <= u
    IN  /\ \A d \in due : d > ctl.now
        /\ to <= limit
        /\ Ran("advance", [Fresh(ctl) EXCEPT !.now = to])

Advance == AdvanceWithin(MaxTime)

\* A circuit-breaker cooldown lasts 30 s or more, longer than the stretch of
\* time SpecCtl covers; cooldowns elapse in SpecRetry.
CtlNext ==
    \/ Mount \/ Unmount \/ Disconnect \/ ManualReconnect
    \/ ReconnectTimer \/ ManualTimer \/ BackoffElapsed
    \/ JoinResolved \/ JoinRejected \/ RoomLeft \/ RoomErrored \/ Advance

CtlInit ==
    /\ RoomInit
    /\ ctl \in {NewHook(auto) : auto \in BOOLEAN}

SpecCtl == CtlInit /\ [][CtlNext]_vars

\* The hook and its sendMessage at one instant: connection, loss of the
\* session, room errors, disconnect and teardown, with intents sent at will.
SendNext ==
    \/ Mount \/ Unmount \/ Disconnect \/ ManualReconnect
    \/ JoinResolved \/ JoinRejected \/ RoomLeft \/ RoomErrored \/ SendMessage

SpecSend == CtlInit /\ [][SendNext]_vars

\* The hook and the chat broadcasts of its room: connection, loss of the
\* connection, automatic reconnection, teardown and remount, while the room
\* handles chat intents.
ChatNext ==
    \/ Mount \/ Disconnect \/ ReconnectTimer \/ BackoffElapsed \/ JoinResolved
    \/ RoomLeft \/ Advance \/ ChatBroadcast \/ ChatDelivered

SpecChat == CtlInit /\ [][ChatNext]_vars

\* The backend rejects the join of the first attempt after mount and accepts
\* the join of every later attempt.
FirstJoinRejected ==
    \E a \in ctl.attempts, err \in JoinErrors :
        /\ a.id = 1
        /\ a.phase = "joining"
        /\ Ran("joinRejected", joinRejected(Fresh(ctl), a, err))

LaterJoinResolved ==
    \E a \in ctl.attempts :
        /\ a.id > 1
        /\ a.phase = "joining"
        /\ Ran("joinResolved", joinResolved(Fresh(ctl), a))

\* Time passes: freely while a timer is pending, and up to MaxTime while
\* none is (a join stays pending for a bounded time).
LiveAdvance ==
    AdvanceWithin(IF Deadlines(ctl) = {} THEN MaxTime ELSE ctl.now + Quantum)

\* The hook left alone by its user: the mount effect runs, timers fire when
\* due, time passes and every join call completes.
LiveNext ==
    \/ Mount \/ FirstJoinRejected \/ LaterJoinResolved
    \/ ReconnectTimer \/ BackoffElapsed \/ LiveAdvance

LiveInit ==
    /\ RoomInit
    /\ ctl \in {NewHook(auto) : auto \in BOOLEAN}

SpecLive ==
    /\ LiveInit
    /\ [][LiveNext]_vars
    /\ WF_vars(Mount)
    /\ WF_vars(FirstJoinRejected)
    /\ WF_vars(LaterJoinResolved)
    /\ WF_vars(ReconnectTimer)
    /\ WF_vars(BackoffElapsed)
    /\ WF_vars(LiveAdvance)

\* connect and its backoff wait for every reconnect-attempt count in
\* 0..MaxBackoffN (maxReconnectAttempts is an option of the hook; counts
\* above its default are reached with a larger option value).
BackoffInit ==
    /\ RoomInit
    /\ ctl \in {[NewHook(auto) EXCEPT !.reconnectAttemptsRef = n] :
                   auto \in BOOLEAN, n \in 0..MaxBackoffN}

BackoffNext == Mount \/ BackoffElapsed \/ Advance

SpecBackoff == BackoffInit /\ [][BackoffNext]_vars

\* The hook, auto-reconnect enabled or not, over a long stretch of time while
\* the server is unreachable (every join is rejected), the component being torn
\* down and mounted again at will.
RetryAdvance == AdvanceWithin(MaxRetryTime)

RetryNext ==
    \/ Mount \/ Unmount
    \/ ReconnectTimer \/ CooldownTimer \/ BackoffElapsed
    \/ JoinRejected \/ RetryAdvance

RetryInit ==
    /\ RoomInit
    /\ ctl \in {NewHook(auto) : auto \in BOOLEAN}

SpecRetry == RetryInit /\ [][RetryNext]_vars

(* ------------------------------ properties ----------------------------- *)

\* C1: after any sequence of joins and leaves the stored participant count
\* equals the size of the participant mapping and equals joins minus leaves.
C1_CountIsMapSize ==
    /\ playerCount = Cardinality(DOMAIN players)
    /\ playerCount = joined - left

C1_Witness == joined >= 3 /\ left >= 2 /\ playerCount >= 1 /\ lastOp.op = "leave"

\* C2: the game status is "active" exactly when the participant count is at
\* least 2 and "waiting" otherwise, also after a leave that keeps the count
\* at 2 or more.
C2_StatusFromCount ==
    gameStatus = (IF playerCount >= 2 THEN "active" ELSE "waiting")

C2_Witness == lastOp.op = "leave" /\ playerCount >= 2 /\ gameStatus = "active"

AppliedOn(k) ==
    /\ lastOp'.op = "hexSelect"
    /\ HexKey(lastOp'.q, lastOp'.r) = k
    /\ lastOp'.sid \in DOMAIN players

\* C4: a hexSelect by a present participant S on an unselected cell leaves it
\* occupied by S with S's colour; a hexSelect by S on a cell S occupies returns
\* it to occupant "" and colour ""; and no step other than a hexSelect on that
\* cell changes it in between.
C4_SelectThenDeselect ==
    [][ \A k \in DOMAIN hexGrid :
          /\ (AppliedOn(k) /\ hexGrid[k].selectedBy = "") =>
                /\ hexGrid'[k].selectedBy = lastOp'.sid
                /\ hexGrid'[k].color = players[lastOp'.sid].color
          /\ (AppliedOn(k) /\ hexGrid[k].selectedBy = lastOp'.sid) =>
                /\ hexGrid'[k].selectedBy = ""
                /\ hexGrid'[k].color = ""
          /\ ~AppliedOn(k) => hexGrid'[k] = hexGrid[k]
      ]_vars

\* S selected an unselected cell and the very next intent was S's on it again.
C4_Witness ==
    /\ lastOp.op = "hexSelect"
    /\ lastOp.was = lastOp.sid
    /\ lastOp.prevSid = lastOp.sid
    /\ lastOp.prevWas = ""
    /\ hexGrid[HexKey(lastOp.q, lastOp.r)].selectedBy = ""
    /\ hexGrid[HexKey(lastOp.q, lastOp.r)].color = ""

\* C5: a hexSelect by a present participant B on a cell occupied by another
\* identity A sets occupant B and B's colour; a following hexSelect by A on
\* that cell (then occupied by B) likewise sets occupant A and A's colour.
C5_Steal ==
    [][ \A k \in DOMAIN hexGrid :
          (AppliedOn(k) /\ hexGrid[k].selectedBy \notin {"", lastOp'.sid}) =>
              /\ hexGrid'[k].selectedBy = lastOp'.sid
              /\ hexGrid'[k].color = players[lastOp'.sid].color
      ]_vars

\* B stole the cell from A and the very next intent was A's on it.
C5_Witness ==
    /\ lastOp.op = "hexSelect"
    /\ lastOp.was \notin {"", lastOp.sid}
    /\ lastOp.prevSid = lastOp.was
    /\ lastOp.prevWas = lastOp.sid
    /\ hexGrid[HexKey(lastOp.q, lastOp.r)].selectedBy = lastOp.sid
    /\ hexGrid[HexKey(lastOp.q, lastOp.r)].color = players[lastOp.sid].color

\* C6: a move, status or hexSelect intent of a sender that is not in the
\* participant mapping, and a hexSelect on coordinates that are no cell of
\* the grid, leave the room state unchanged and emit no event.
C6_InvalidIntentDropped ==
    [][ ( \/ /\ lastOp'.op \in {"move", "status", "hexSelect"}
             /\ lastOp'.sid \notin DOMAIN players
          \/ /\ lastOp'.op = "hexSelect"
             /\ HexKey(lastOp'.q, lastOp'.r) \notin DOMAIN hexGrid )
        => (UNCHANGED roomState /\ events' = <<>>)
      ]_vars

C6_Witness ==
    /\ lastOp.op = "hexSelect"
    /\ lastOp.sid \notin DOMAIN players
    /\ HexKey(lastOp.q, lastOp.r) \in DOMAIN hexGrid
    /\ playerCount > 0
    /\ events = <<>>

\* C7: for every cell the colour is non-empty exactly when the occupant is
\* non-empty.
C7_ColorIffOccupant ==
    \A k \in DOMAIN hexGrid : (hexGrid[k].color # "") <=> (hexGrid[k].selectedBy # "")

C7_Witness ==
    /\ left > 0
    /\ lastOp.op = "hexSelect"
    /\ lastOp.was \notin {"", lastOp.sid}
    /\ \E k \in DOMAIN hexGrid : hexGrid[k].selectedBy # "" /\ hexGrid[k].color # ""

\* C8: every cell's occupant is empty or the identity of a participant that
\* is currently in the participant mapping.
C8_OccupantIsParticipant ==
    \A k \in DOMAIN hexGrid :
        hexGrid[k].selectedBy = "" \/ hexGrid[k].selectedBy \in DOMAIN players

\* C9: a leave changes no cell, neither a cell occupied by another
\* participant nor a cell occupied by the leaver.
C9_LeaveKeepsCells ==
    [][ (lastOp'.op = "leave" /\ left' = left + 1) => hexGrid' = hexGrid ]_vars

C9_Witness ==
    /\ lastOp.op = "leave"
    /\ \E k \in DOMAIN hexGrid :
          /\ hexGrid[k].selectedBy = lastOp.sid
          /\ hexGrid[k].color # ""

\* C10: every chat intent, whether or not its sender is a participant, emits
\* exactly one chat broadcast with the sender's identity and the text to all
\* participants (the sender included) and leaves the room state unchanged.
C10_ChatBroadcast ==
    [][ lastOp'.op = "chat" =>
            /\ UNCHANGED roomState
            /\ Len(events') = 1
            /\ events'[1].type = "chat"
            /\ events'[1].sessionId = lastOp'.sid
            /\ events'[1].message = lastOp'.text
            /\ events'[1].to = DOMAIN players
      ]_vars

C10_Witness ==
    /\ lastOp.op = "chat"
    /\ Len(events) = 1
    /\ playerCount = 2
    /\ lastOp.sid \in events[1].to

\* C11: every join emits, in this order, a state update with the post-join
\* count and status, a roster snapshot with exactly the participants present
\* after the join (the joiner included), and one welcome sent to the joiner
\* only that carries the joiner's identity.
C11_JoinEvents ==
    lastOp.op = "join" =>
        /\ Len(events) = 3
        /\ events[1].type = "stateUpdate"
        /\ events[1].to = DOMAIN players
        /\ events[1].playerCount = playerCount
        /\ events[1].gameStatus = gameStatus
        /\ events[2].type = "playerUpdate"
        /\ events[2].to = DOMAIN players
        /\ events[2].players = players
        /\ lastOp.sid \in DOMAIN events[2].players
        /\ events[3].type = "welcome"
        /\ events[3].to = {lastOp.sid}
        /\ events[3].sessionId = lastOp.sid

C11_Witness ==
    /\ lastOp.op = "join"
    /\ playerCount = 2
    /\ Len(events) = 3
    /\ events[3].to = {lastOp.sid}

\* C12: every leave, graceful or abrupt, removes exactly the leaver and emits
\* a state update with the post-leave count and status followed by a roster
\* snapshot of exactly the remaining participants; no welcome is emitted.
C12_LeaveEvents ==
    [][ (lastOp'.op = "leave" /\ left' = left + 1) =>
            /\ DOMAIN players' = DOMAIN players \ {lastOp'.sid}
            /\ lastOp'.sid \in DOMAIN players
            /\ \A sid \in DOMAIN players' : players'[sid] = players[sid]
            /\ Len(events') = 2
            /\ events'[1].type = "stateUpdate"
            /\ events'[1].playerCount = playerCount'
            /\ events'[1].gameStatus = gameStatus'
            /\ events'[2].type = "playerUpdate"
            /\ events'[2].players = players'
            /\ lastOp'.sid \notin DOMAIN events'[2].players
            /\ \A i \in 1..Len(events') : events'[i].type # "welcome"
      ]_vars

C12_Witness ==
    /\ lastOp.op = "leave"
    /\ lastOp.text = "abrupt"
    /\ playerCount = 1
    /\ Len(events) = 2
    /\ DOMAIN events[2].players = DOMAIN players

\* The hook without its history fields.
Program(c) ==
    [c EXCEPT !.op = "", !.connectResult = "none", !.released = Null,
              !.disconnected = FALSE, !.closeCode = Null, !.sent = NoSend,
              !.broadcasts = <<>>, !.inbox = {}]

\* The hook at the moment one of its callers calls connect: the mount effect,
\* the reconnect timer callback, a manual-reconnect timer callback.
ConnectCalls(c) ==
    {[c EXCEPT !.mounted = TRUE, !.shouldReconnectRef = TRUE],
     [c EXCEPT !.reconnectTimeoutRef = Null]}
        \cup {[c EXCEPT !.manualTimers = @ \ {d}] : d \in c.manualTimers}

\* C13: a connect request made less than 5000 ms after the latest connection
\* attempt started is dropped: no attempt starts, nothing is queued (no timer,
\* no activation) and connect changes nothing of the hook.
C13_SecondRequestDropped ==
    [][ (ctl'.connectResult # "none"
            /\ ctl'.now - ctl.lastConnectionAttemptRef < RateLimitMs)
        => /\ ctl'.connectResult \in {"busy", "disabled", "rateLimited"}
           /\ ctl'.started = ctl.started
           /\ ctl'.joinCalls = ctl.joinCalls
           /\ \E call \in ConnectCalls(ctl) : Program(ctl') = Program(call) ]_vars

\* C13 witness: a second request was dropped by the rate limit, one attempt
\* having been started.
C13_Witness ==
    /\ ctl.connectResult = "rateLimited"
    /\ ctl.started = 1
    /\ ctl.now - ctl.lastConnectionAttemptRef < RateLimitMs
\* C14 as stated: with the failure count at 3 or more, every connect request
\* is refused and starts a cooldown of min(count x 10 s, 60 s).
C14_RefusedWithCooldown ==
    (ctl.connectResult # "none" /\ ctl.connectionFailureCountRef >= 3)
        => /\ ctl.connectResult # "started"
           /\ \E wait \in {10000 * ctl.connectionFailureCountRef, 60000} :
                 /\ wait <= 10000 * ctl.connectionFailureCountRef
                 /\ wait <= 60000
                 /\ ctl.now + wait \in ctl.cooldowns

\* C14, amended: with the failure count at 3 or more a connect request is
\* refused (no attempt starts, the status is left as it was); unless the
\* in-flight guard or the rate limit has already dropped the request, a
\* cooldown of min(count x 10 s, 60 s) is started.  When a cooldown elapses
\* the failure count becomes zero and nothing else of the hook changes: no
\* attempt starts.
C14_BreakerRefuses ==
    [][ /\ (ctl'.connectResult # "none" /\ ctl.connectionFailureCountRef >= 3)
            => /\ ctl'.connectResult \in {"busy", "rateLimited", "breaker"}
               /\ ctl'.started = ctl.started
               /\ ctl'.joinCalls = ctl.joinCalls
               /\ ctl'.attempts = ctl.attempts
               /\ ctl'.connectionStatus = ctl.connectionStatus
               /\ ctl'.connectionFailureCountRef = ctl.connectionFailureCountRef
               /\ ctl'.connectResult = "breaker"
                     <=> (~ctl.isConnectingRef
                            /\ ctl'.now - ctl.lastConnectionAttemptRef >= 5000)
               /\ ctl'.connectResult = "breaker"
                     => \E wait \in {10000 * ctl.connectionFailureCountRef, 60000} :
                          /\ wait <= 10000 * ctl.connectionFailureCountRef
                          /\ wait <= 60000
                          /\ ctl'.cooldowns = ctl.cooldowns \cup {ctl.now + wait}
               /\ ctl'.connectResult # "breaker" => ctl'.cooldowns = ctl.cooldowns
        /\ ctl'.op = "cooldownTimer"
            => /\ ctl'.connectionFailureCountRef = 0
               /\ \E d \in ctl.cooldowns :
                     Program(ctl') = Program([ctl EXCEPT !.cooldowns = @ \ {d},
                                                         !.connectionFailureCountRef = 0])
      ]_vars

\* C14 witness: three attempts failed, a request was refused by the circuit
\* breaker, and its cooldown has just elapsed.
C14_Witness ==
    /\ ctl.op = "cooldownTimer"
    /\ ctl.connectionFailureCountRef = 0
    /\ ctl.started >= 3
    /\ ctl.attempts = {}
\* C15: with auto-reconnect enabled and maxReconnectAttempts = 3, once the
\* third consecutive attempt has failed (no teardown, disconnect or manual
\* reconnect having occurred) no reconnect timer is pending and the status
\* is error.
C15_RestsInError ==
    (/\ ctl.autoReconnect
     /\ maxReconnectAttempts = 3
     /\ ctl.userActions = 0
     /\ ctl.op = "joinRejected"
     /\ ctl.connectionFailureCountRef = 3)
        => /\ ctl.reconnectTimeoutRef = Null
           /\ ctl.connectionStatus = "error"
\* C16: when the delay of a manual reconnect request has elapsed a new
\* connection attempt has started and the status is connecting, the two
\* counts being zero.
C16_ManualReconnectConnects ==
    ctl.op = "manualTimer"
        => /\ ctl.connectResult = "started"
           /\ ctl.connectionStatus = "connecting"
           /\ ctl.reconnectAttemptsRef = 0
           /\ ctl.connectionFailureCountRef = 0

\* C17: at most one connect activation is in flight (waiting in its backoff
\* delay or for its join) in every reachable state.
C17_OneAttemptInFlight == Cardinality(ctl.attempts) <= 1

\* C18: when the join of an activation that was in flight at a teardown or
\* disconnect resolves, its session is released at once and room handle,
\* session identity and status stay as they were.
C18_AbandonedDiscarded ==
    [][ \A a \in ctl.attempts :
          (/\ a.gen < ctl.userActions
           /\ ctl'.op = "joinResolved"
           /\ a \notin ctl'.attempts)
              => /\ ctl'.released = a.id
                 /\ ctl'.roomRef = ctl.roomRef
                 /\ ctl'.room = ctl.room
                 /\ ctl'.sessionId = ctl.sessionId
                 /\ ctl'.connectionStatus = ctl.connectionStatus ]_vars

\* C19: the teardown leaves the reconnection flag cleared and no timer
\* pending, and while the hook stays torn down no timer callback runs and no
\* join call is issued.
C19_TeardownCancelsAll ==
    [][ /\ ctl'.op = "unmount"
            => ~ctl'.shouldReconnectRef /\ Deadlines(ctl') = {}
        /\ (~ctl.mounted /\ ~ctl'.mounted)
            => /\ ctl'.joinCalls = ctl.joinCalls
               /\ ctl'.op \notin {"reconnectTimer", "cooldownTimer",
                                   "manualTimer", "backoffElapsed"} ]_vars

\* C20: a disconnect leaves no reconnect timer pending, and from then until
\* the next mount or manual reconnect request no attempt starts and no join
\* call is issued.
C20_DisconnectSuppresses ==
    [][ /\ ctl'.op = "disconnect" => ctl'.reconnectTimeoutRef = Null
        /\ (ctl.disconnected /\ ctl'.disconnected)
            => /\ ctl'.started = ctl.started
               /\ ctl'.joinCalls = ctl.joinCalls ]_vars
\* C21: when a join resolves and its session is adopted (not released), the
\* status is connected, the failure count and the reconnect-attempt count
\* are zero, and room handle and session identity are those of the new
\* session.
C21_AdoptionResets ==
    [][ (ctl'.op = "joinResolved" /\ ctl'.released = Null)
        => /\ ctl'.connectionStatus = "connected"
           /\ ctl'.connectionFailureCountRef = 0
           /\ ctl'.reconnectAttemptsRef = 0
           /\ \E a \in ctl.attempts \ ctl'.attempts :
                 /\ ctl'.sessionId = a.id
                 /\ ctl'.room = a.id
                 /\ ctl'.roomRef = a.id ]_vars

\* C21 witness: the second attempt, a retry made after the first failed with
\* no user action, was adopted.
C21_Witness ==
    /\ ctl.op = "joinResolved"
    /\ ctl.userActions = 0
    /\ ctl.joinCalls = 2
    /\ ctl.sessions = {[id |-> 2, closing |-> FALSE]}
    /\ ctl.sessionId = 2
    /\ ctl.connectionStatus = "connected"

\* C22: when a join is rejected the failure count grows by one; this failure
\* schedules a reconnect (timer armed, attempt count incremented, status
\* reconnecting) exactly if auto-reconnect is on, reconnection is not
\* suppressed and the attempt count is below its maximum; otherwise the
\* status is error with no timer pending.
C22_FailureSchedules ==
    [][ ctl'.op = "joinRejected"
            => /\ ctl'.connectionFailureCountRef = ctl.connectionFailureCountRef + 1
               /\ IF /\ ctl.autoReconnect
                     /\ ctl.shouldReconnectRef
                     /\ ctl.reconnectAttemptsRef < maxReconnectAttempts
                  THEN /\ ctl.reconnectTimeoutRef = Null
                       /\ ctl'.reconnectTimeoutRef # Null
                       /\ ctl'.reconnectAttemptsRef = ctl.reconnectAttemptsRef + 1
                       /\ ctl'.connectionStatus = "reconnecting"
                  ELSE /\ ctl'.reconnectTimeoutRef = Null
                       /\ ctl'.reconnectAttemptsRef = ctl.reconnectAttemptsRef
                       /\ ctl'.connectionStatus = "error" ]_vars
\* C23: when the backend ends the session the hook is connected with: after
\* a clean close (code 1000) no reconnect is scheduled and the status is
\* disconnected; after any other code, with auto-reconnect on and attempts
\* remaining, a reconnect is scheduled and the status is reconnecting; in
\* both cases the room handle is released.
C23_BackendTermination ==
    [][ \A s \in ctl.sessions :
          (/\ ctl'.op = "onLeave"
           /\ s \notin ctl'.sessions
           /\ ~s.closing
           /\ ctl.roomRef = s.id
           /\ ctl.connectionStatus = "connected")
              => /\ ctl'.roomRef = Null
                 /\ ctl'.room = Null
                 /\ ctl'.closeCode = CleanCloseCode
                      => /\ ctl'.connectionStatus = "disconnected"
                         /\ ctl'.reconnectTimeoutRef = ctl.reconnectTimeoutRef
                         /\ ctl'.reconnectAttemptsRef = ctl.reconnectAttemptsRef
                 /\ (/\ ctl'.closeCode # CleanCloseCode
                     /\ ctl.autoReconnect
                     /\ ctl.reconnectAttemptsRef < maxReconnectAttempts)
                      => /\ ctl'.connectionStatus = "reconnecting"
                         /\ ctl.reconnectTimeoutRef = Null
                         /\ ctl'.reconnectTimeoutRef = ctl.now + reconnectInterval
                         /\ ctl'.reconnectAttemptsRef = ctl.reconnectAttemptsRef + 1 ]_vars

\* C24: the callback of the reconnect timer starts a connection attempt and
\* sets the status to connecting, and the hook is never in reconnecting with
\* no timer pending and no attempt in flight (no teardown, disconnect or
\* manual reconnect having occurred).
C24_ReconnectingProceeds ==
    ctl.userActions = 0
        => /\ ctl.op = "reconnectTimer"
                => ctl.connectResult = "started" /\ ctl.connectionStatus = "connecting"
           /\ ~(/\ ctl.connectionStatus = "reconnecting"
                /\ ctl.reconnectTimeoutRef = Null
                /\ ctl.attempts = {})
C28_MoveFrame ==
    [][ (lastOp'.op = "move" /\ lastOp'.sid \in DOMAIN players)
        => /\ DOMAIN players' = DOMAIN players
           /\ players'[lastOp'.sid].x = lastOp'.x
           /\ players'[lastOp'.sid].y = lastOp'.y
           /\ players'[lastOp'.sid].status = "moving"
           /\ players'[lastOp'.sid] =
                  [players[lastOp'.sid] EXCEPT !.x = lastOp'.x, !.y = lastOp'.y,
                                               !.status = "moving"]
           /\ \A sid \in DOMAIN players \ {lastOp'.sid} : players'[sid] = players[sid]
           /\ events' = <<>>
           /\ UNCHANGED <<hexGrid, playerCount, gameStatus>> ]_vars

\* C28 witness: one of two participants has moved, the other has not.
C28_Witness ==
    /\ lastOp.op = "move"
    /\ playerCount = 2
    /\ lastOp.sid \in DOMAIN players
    /\ players[lastOp.sid].x = lastOp.x
    /\ players[lastOp.sid].status = "moving"
    /\ \E sid \in DOMAIN players : players[sid].status # "moving"
    /\ events = <<>>

\* C29: an applied hexSelect emits exactly one hexUpdate, to all
\* participants, whose q, r, selectedBy and color are those of the cell
\* after the toggle and whose playerName is the sender's name when the cell
\* ends up occupied and empty when it ends up deselected.
C29_HexUpdateBroadcast ==
    [][ (/\ lastOp'.op = "hexSelect"
         /\ lastOp'.sid \in DOMAIN players
         /\ HexKey(lastOp'.q, lastOp'.r) \in DOMAIN hexGrid)
        => LET cell == hexGrid'[HexKey(lastOp'.q, lastOp'.r)]
           IN  /\ Len(events') = 1
               /\ events'[1].type = "hexUpdate"
               /\ events'[1].to = DOMAIN players
               /\ events'[1].q = lastOp'.q /\ events'[1].q = cell.q
               /\ events'[1].r = lastOp'.r /\ events'[1].r = cell.r
               /\ events'[1].selectedBy = cell.selectedBy
               /\ events'[1].color = cell.color
               /\ events'[1].playerName =
                      IF cell.selectedBy # "" THEN players[lastOp'.sid].name ELSE "" ]_vars

\* C29 witness: a participant has deselected its cell and the broadcast
\* carries no occupant and no name, a second participant being present.
C29_Witness ==
    /\ lastOp.op = "hexSelect"
    /\ lastOp.was = lastOp.sid
    /\ lastOp.sid \in DOMAIN players
    /\ playerCount = 2
    /\ Len(events) = 1
    /\ events[1].selectedBy = ""
    /\ events[1].playerName = ""
    /\ events[1].to = DOMAIN players
\* C27: sendMessage hands the intent to the room held as room handle exactly
\* when a handle is held and the status is connected; otherwise nothing is
\* sent; in both cases nothing else of the hook changes (nothing is queued).
C27_SendWhenConnected ==
    [][ ctl'.op = "sendMessage"
        => /\ Program(ctl') = Program(ctl)
           /\ IF ctl.roomRef # Null /\ ctl.connectionStatus = "connected"
              THEN /\ ctl'.sent.to = ctl.roomRef
                   /\ [type |-> ctl'.sent.type, data |-> ctl'.sent.data] \in Intents
              ELSE ctl'.sent = NoSend ]_vars

\* C27 witness: an intent was dropped while a room handle was held, the
\* status being error.
C27_Witness ==
    /\ ctl.op = "sendMessage"
    /\ ctl.sent = NoSend
    /\ ctl.roomRef # Null
    /\ ctl.connectionStatus = "error"
C30_ContiguousList ==
    \A i \in 1..(Len(ctl.messages) - 1) :
        ctl.messages[i + 1].seq = ctl.messages[i].seq + 1

\* C30, amended: every entry of the hook's message list is a chat broadcast
\* of the room; the entries that came by one session are in the order the
\* room made the broadcasts and are a contiguous run of them; while the hook
\* has not been torn down the whole list is in the room's order.  (Across a
\* reconnection the list keeps the earlier session's messages and lacks the
\* broadcasts made while no session was open.)
C30_ChatOrder ==
    LET msgs == ctl.messages
    IN  /\ \A i \in DOMAIN msgs :
              /\ msgs[i].seq \in DOMAIN ctl.broadcasts
              /\ msgs[i].data = ctl.broadcasts[msgs[i].seq]
        /\ \A i, j \in DOMAIN msgs :
              (/\ i < j
               /\ msgs[i].via = msgs[j].via
               /\ \A k \in (i + 1)..(j - 1) : msgs[k].via # msgs[i].via)
                  => msgs[j].seq = msgs[i].seq + 1
        /\ ctl.userActions = 0
              => \A i, j \in DOMAIN msgs : i < j => msgs[i].seq < msgs[j].seq

\* C30 witness: with no teardown, the list holds the first broadcast, which
\* came by one session, and the third, which came by the next; the second
\* was made while the hook had no session.
C30_Witness ==
    /\ ctl.userActions = 0
    /\ Len(ctl.messages) = 2
    /\ ctl.messages[1].seq = 1
    /\ ctl.messages[2].seq = 3
    /\ ctl.messages[1].via # ctl.messages[2].via
C34_AttemptCountInRange ==
    ctl.reconnectAttemptsRef \in 0..maxReconnectAttempts

\* C34 witness: the third reconnect is scheduled.
C34_Witness ==
    /\ ctl.reconnectAttemptsRef = maxReconnectAttempts
    /\ ctl.reconnectTimeoutRef # Null
    /\ ctl.connectionStatus = "reconnecting"

\* C35: a scheduleReconnect call made while a reconnect timer is pending or
\* while reconnection is suppressed changes nothing; when a join is rejected
\* or a session closes while a reconnect timer is pending, the timer, the
\* reconnect-attempt count and the status set by the handler stay as they are.
C35_OneReconnectTimer ==
    [][ /\ (ctl.reconnectTimeoutRef # Null \/ ~ctl.shouldReconnectRef)
            => scheduleReconnect(ctl) = ctl
        /\ (ctl.reconnectTimeoutRef # Null /\ ctl'.op \in {"joinRejected", "onLeave"})
            => /\ ctl'.reconnectTimeoutRef = ctl.reconnectTimeoutRef
               /\ ctl'.reconnectAttemptsRef = ctl.reconnectAttemptsRef
               /\ ctl'.connectionStatus =
                     IF ctl'.op = "joinRejected" THEN "error" ELSE "disconnected" ]_vars

\* C35 witness: a join was rejected with auto-reconnect enabled, not
\* suppressed and attempts remaining, so scheduleReconnect was called; the
\* status is still error because a reconnect timer was pending.
C35_Witness ==
    /\ ctl.op = "joinRejected"
    /\ ctl.autoReconnect
    /\ ctl.shouldReconnectRef
    /\ ctl.reconnectAttemptsRef < maxReconnectAttempts
    /\ ctl.reconnectTimeoutRef # Null
    /\ ctl.connectionStatus = "error"

\* C37: while at most 8 participants are present, no two participants
\* present at the same time have the same colour.
C37_DistinctColors ==
    Cardinality(DOMAIN players) <= Len(playerColors)
        => \A a, b \in DOMAIN players :
              a # b => players[a].color # players[b].color

\* C33: a participant who stays in the room keeps the name, colour and
\* joined-at value given at the join; a move or status intent changes nothing
\* of any participant but the sender's x, y and status; a chat or hexSelect
\* intent changes no participant.
C33_IdentityImmutable ==
    [][ /\ \A sid \in DOMAIN players \cap DOMAIN players' :
              /\ players'[sid].name = players[sid].name
              /\ players'[sid].color = players[sid].color
              /\ players'[sid].joinedAt = players[sid].joinedAt
        /\ lastOp'.op \in {"move", "status"}
              => /\ DOMAIN players' = DOMAIN players
                 /\ \A sid \in DOMAIN players :
                       sid # lastOp'.sid => players'[sid] = players[sid]
        /\ lastOp'.op \in {"chat", "hexSelect"} => players' = players ]_vars

\* C33 witness: a participant who joined under the name Ann at time MaxClock
\* has just sent a status intent after having moved.
C33_Witness ==
    /\ lastOp.op = "status"
    /\ lastOp.sid \in DOMAIN players
    /\ players[lastOp.sid].name = "Ann"
    /\ players[lastOp.sid].joinedAt = MaxClock
    /\ players[lastOp.sid].x = 1
    /\ Cardinality(DOMAIN players) = 2

\* C36: from an explicit disconnect until the next mount or manual reconnect
\* the status is disconnected and the failure count does not change, also
\* when an attempt that was in flight at the disconnect completes.
C36_DisconnectedStays ==
    [][ /\ ctl'.op = "disconnect" => ctl'.connectionStatus = "disconnected"
        /\ (ctl.disconnected /\ ctl'.disconnected)
            => /\ ctl'.connectionStatus = "disconnected"
               /\ ctl'.connectionFailureCountRef = ctl.connectionFailureCountRef ]_vars

\* C38: the status is connected if and only if the hook holds a room handle.
C38_ConnectedIffHandle ==
    (ctl.connectionStatus = "connected") <=> (ctl.roomRef # Null)

\* C39: the in-flight guard is set exactly while a connection attempt is
\* waiting for its backoff delay or its join result.
C39_GuardIffInFlight ==
    ctl.isConnectingRef <=> (ctl.attempts # {})

\* C31: with auto-reconnect enabled, once the first attempt after mount has
\* failed the hook eventually reaches connected, no manual action occurring
\* and the backend accepting every later attempt.
C31_EventuallyConnected ==
    (ctl.autoReconnect /\ ctl.op = "joinRejected")
        ~> (ctl.connectionStatus = "connected")

\* C31 witness: connected by the second attempt, the first having failed.
C31_Witness ==
    /\ ctl.autoReconnect
    /\ ctl.op = "joinResolved"
    /\ ctl.connectionStatus = "connected"
    /\ ctl.started = 2
    /\ ctl.joinCalls = 2
    /\ ctl.userActions = 0
    /\ ctl.error = NoError
====
